---- MODULE Spec2Model ----
(***************************************************************************)
(* Model of checker.py, the drift detector that compares a pulled          *)
(* terraform state with the live GCP organisation: main() walks the        *)
(* modules of the state and runs check_org_iam, check_folders,             *)
(* check_folder_iam and check_dns on each.                                 *)
(*                                                                         *)
(* The terraform state is the input (chosen in Init).  The answers of the  *)
(* Google APIs are drawn when a request is executed: a request fails       *)
(* (HttpError) or returns one page.  A Python exception that nothing       *)
(* catches ends the process: `raised` records it and pc becomes "exit".    *)
(***************************************************************************)
EXTENDS Integers, Sequences, FiniteSets, TLC

(* ---------------------------- bounds ----------------------------------- *)

\* modules in the pulled state
MaxModules == 2
\* resources in the pulled state, all modules together
MaxRes == 3
\* pages of one live listing
MaxPages == 2
\* items of one live listing, all pages together
MaxItems == 2

(* ------------------------ declared resources --------------------------- *)

Absent == "<absent>"

AttrNames ==
    {"name", "domain", "member", "role", "parent", "display_name", "id",
     "folder", "project", "managed_zone", "type"}

Types ==
    {"google_organization", "google_organization_iam_member", "google_folder",
     "google_folder_iam_member", "google_project", "google_dns_record_set"}

\* one resource record of the state: {"type": ..., "primary": {"id": ..., "attributes": {...}}}
Res(type, id, attrs) ==
    [type |-> type, id |-> id,
     attributes |-> [a \in AttrNames |-> IF a \in DOMAIN attrs THEN attrs[a] ELSE Absent]]

Org1 == Res("google_organization", "9", [name |-> "organizations/9", domain |-> "example.com"])
Org2 == Res("google_organization", "8", [name |-> "organizations/8", domain |-> "other.org"])
OrgMember ==
    Res("google_organization_iam_member", "om", [member |-> "user:a", role |-> "roles/viewer"])
Folder1 ==
    Res("google_folder", "folders/1",
        [id |-> "folders/1", name |-> "folders/1", parent |-> "organizations/9",
         display_name |-> "One"])
\* a declared folder whose record carries no parent attribute
Folder2 ==
    Res("google_folder", "folders/2",
        [id |-> "folders/2", name |-> "folders/2", display_name |-> "Two"])
\* a declared folder whose parent attribute is the empty string
Folder3 ==
    Res("google_folder", "folders/3",
        [id |-> "folders/3", name |-> "folders/3", parent |-> "", display_name |-> "Three"])
FolderMember ==
    Res("google_folder_iam_member", "fm",
        [folder |-> "folders/1", member |-> "user:a", role |-> "roles/viewer"])
Project1 == Res("google_project", "proj1", [name |-> "proj1"])
Record1 ==
    Res("google_dns_record_set", "rs",
        [project |-> "proj1", managed_zone |-> "zoneA", name |-> "www.example.com.",
         type |-> "A"])

Catalogue ==
    {Org1, Org2, OrgMember, Folder1, Folder2, Folder3, FolderMember, Project1, Record1}

\* The documents `terraform state pull` can print: {"modules": [{"resources": ...}, ...]}
\* (shape "partitioned") and {"resources": ...} (shape "flat", its resource map in
\* body[1]).  main reads a module of a partitioned document only when its for loop
\* reaches it, so the model draws the module then: body holds the modules read so far.
Small(used) ==
    {S \in SUBSET (Catalogue \ used) : Cardinality(S) + Cardinality(used) <= MaxRes}

Docs ==
    {[shape |-> "flat", body |-> <<S>>] : S \in Small({})}
    \cup {[shape |-> "partitioned", body |-> << >>]}

Range(s) == {s[i] : i \in 1..Len(s)}

\* the modules that can follow those read: the document holds at least its root
\* module, at most MaxModules modules and at most MaxRes resources
MoreModules(body) ==
    IF Len(body) < MaxModules THEN Small(UNION Range(body)) ELSE {}

\* the document may end after the modules read
MayEnd(body) == Len(body) >= 1

\* resolve_pointer(resource, '/primary/attributes/<a>') finds a value
Found(res, a) == res.attributes[a] # Absent

\* every resolve_pointer of a comprehension over rs finds its value
AllFound(rs, attrs) == \A r \in rs : \A a \in attrs : Found(r, a)

(* --------------------------- live answers ------------------------------ *)

\* the policies getIamPolicy can answer with: response['bindings']
Policies ==
    { << >>,
      << [role |-> "roles/viewer", members |-> <<"user:a">>] >>,
      << [role |-> "roles/viewer", members |-> <<"user:a", "user:b">>] >>,
      << [role |-> "roles/editor", members |-> <<"user:b">>],
         [role |-> "roles/viewer", members |-> <<"user:a">>] >> }

LiveFolders ==
    { [name |-> "folders/1", displayName |-> "One"],
      [name |-> "folders/2", displayName |-> "X"],
      [name |-> "folders/2", displayName |-> "Y"] }

LiveZones == {"zoneA"}

LiveRecords ==
    { [name |-> "www.example.com.", type |-> "A"],
      [name |-> "mail.example.com.", type |-> "MX"] }

SeqsUpTo(S, n) == UNION {[1..k -> S] : k \in 0..n}

\* what request.execute() can do for page `page` of a listing of which `seen` was
\* already returned: raise, or answer with items and, unless it is the last page
\* of the listing, a nextPageToken.  haskey = FALSE is an answer without the
\* items key: a folders page may leave "folders" out (the code reads it with .get);
\* the DNS pages are drawn with their key, which the code subscripts.
PageOutcomes(Items, page, seen, mayOmitKey) ==
    { [ok |-> FALSE, haskey |-> TRUE, items |-> << >>, next |-> FALSE] }
    \cup { [ok |-> TRUE, haskey |-> TRUE, items |-> it, next |-> nx]
           : it \in SeqsUpTo(Items, MaxItems - Len(seen)),
             nx \in {b \in BOOLEAN : b => page < MaxPages} }
    \cup { [ok |-> TRUE, haskey |-> FALSE, items |-> << >>, next |-> nx]
           : nx \in {b \in BOOLEAN : mayOmitKey /\ (b => page < MaxPages)} }

(* ----------------------------- helpers --------------------------------- *)

\* the order in which a for loop walks a Python set: a function of the set that the
\* program does not choose
SetOrder(S) ==
    CHOOSE s \in [1..Cardinality(S) -> S] : \A k \in S : \E i \in DOMAIN s : s[i] = k

EmptyDict == [k \in {} |-> k]

\* a dict comprehension {folder['name']: folder for folder in items}
RECURSIVE ToDict(_)
ToDict(items) ==
    IF items = << >> THEN EmptyDict
    ELSE LET n == Len(items)
             d == ToDict(SubSeq(items, 1, n - 1))
         IN  [k \in DOMAIN d \cup {items[n].name} |->
                 IF k = items[n].name THEN items[n] ELSE d[k]]

UpdateEarlierWins(d, e) ==
    [k \in DOMAIN d \cup DOMAIN e |-> IF k \in DOMAIN d THEN d[k] ELSE e[k]]

\* dict.update: d.update(e)
Update(d, e) ==
    [k \in DOMAIN d \cup DOMAIN e |-> IF k \in DOMAIN e THEN e[k] ELSE d[k]]

ListNextRestart(request, token) == IF token THEN 1 ELSE 0

\* list_next(previous_request, previous_response): the request of the next page,
\* None (0) when the response carries no nextPageToken
ListNext(request, token) == IF token THEN request + 1 ELSE 0

FlattenFirstMember(bindings) ==
    {<<b.members[1], b.role>> : b \in {x \in Range(bindings) : x.members # << >>}}

\* for binding in response['bindings']: for member in binding['members']:
\*     gcp_iam_ids.add((member, binding['role']))
RECURSIVE Flatten(_)
Flatten(bindings) ==
    IF bindings = << >> THEN {}
    ELSE {<<Head(bindings).members[i], Head(bindings).role>>
             : i \in 1..Len(Head(bindings).members)}
         \cup Flatten(Tail(bindings))

\* set((resolve(member), resolve(role)) for resource in rs)
MemberKeys(rs) == {<<r.attributes["member"], r.attributes["role"]>> : r \in rs}

\* [(resource["name"], resource["type"]) for resource in response['rrsets']]
RecordPairs(items) == [i \in 1..Len(items) |-> <<items[i].name, items[i].type>>]

(* ------------------------------ state ---------------------------------- *)

VARIABLES
    state,            \* json.loads(result.stdout), as far as main has read it
    pc,               \* where the process is
    module,           \* index of the module the for loop of main is at
    resources,        \* main's defaultdict: type -> the module's resources of the type
    raised,           \* the exception that ended the process, if any
    printed,          \* the lines the running check has printed (main: its progress lines)
    parent_ids,       \* check_folders: parents not yet listed
    gcp_folders,      \* check_folders: name -> live folder
    page_folders,     \* _get_gcp_folders_in_parent: its gcp_folders
    iam_folders,      \* check_folder_iam: keys of iam_states_by_folder_name not yet visited
    projects,         \* check_dns: projects not yet visited
    project_id,       \* check_dns
    zone_request,     \* check_dns: page of the managedZones request, 0 = None
    zone_token,       \* check_dns: the managedZones response carries a nextPageToken
    zones,            \* check_dns: zones of the response not yet visited
    zone_name,        \* check_dns: managed_zone_name
    gcp_recordsets,   \* check_dns
    request,          \* the helpers' request: its page, 0 = None
    recordsets,       \* _get_recordsets_for_zone
    log,              \* history: the page requests the running helper executed
    seen,             \* history: the items the running helper was answered with
    folder_pages,     \* history: the pages _get_gcp_folders_in_parent was answered with
    zone_log,         \* history: the managedZones page requests of the project
    zone_seen,        \* history: the zones the managedZones pages answered with
    zone_visited,     \* history: the zones _get_recordsets_for_zone was called for
    ran,              \* history: the checks entered, <<module, check>>, in order
    org_fetch,        \* history: modules whose organisation policy was requested
    diff              \* history: the difference the running check computed last

vars ==
    <<state, pc, module, resources, raised, printed, parent_ids, gcp_folders,
      page_folders, iam_folders, projects, project_id, zone_request, zone_token,
      zones, zone_name, gcp_recordsets, request, recordsets, log, seen, zone_log,
      zone_seen, zone_visited, ran, org_fetch, diff, folder_pages>>

foldersVars == <<parent_ids, gcp_folders, page_folders, folder_pages>>
dnsVars == <<projects, project_id, zone_request, zone_token, zones, zone_name,
             gcp_recordsets, recordsets, zone_log, zone_seen, zone_visited>>
helperVars == <<request, log, seen>>

NoException == [exc |-> "none", at |-> "none"]
NoDiff ==
    [check |-> "none", module |-> 0, scope |-> "", bindings |-> << >>, live |-> {},
     missing |-> {}, printed |-> << >>]

Line(kind, check, text) == [kind |-> kind, check |-> check, text |-> text]

Init ==
    /\ state \in Docs
    /\ pc = "start"
    /\ module = 0
    /\ resources = [t \in Types |-> {}]
    /\ raised = NoException
    /\ printed = << >>
    /\ parent_ids = {}
    /\ gcp_folders = EmptyDict
    /\ page_folders = EmptyDict
    /\ iam_folders = {}
    /\ projects = {}
    /\ project_id = ""
    /\ zone_request = 0
    /\ zone_token = FALSE
    /\ zones = << >>
    /\ zone_name = ""
    /\ gcp_recordsets = {}
    /\ request = 0
    /\ recordsets = << >>
    /\ log = << >>
    /\ seen = << >>
    /\ folder_pages = << >>
    /\ zone_log = << >>
    /\ zone_seen = << >>
    /\ zone_visited = << >>
    /\ ran = << >>
    /\ org_fetch = {}
    /\ diff = NoDiff

\* an exception nothing catches: the traceback goes to stderr, the process exits 1
Raise(exc, at) ==
    /\ raised' = [exc |-> exc, at |-> at]
    /\ pc' = "exit"

ExitCode == IF raised = NoException THEN 0 ELSE 1

(* ------------------------------- main ---------------------------------- *)

\* lines 19-30: the two progress lines, then state['modules'] (a KeyError when the
\* document has no "modules" key)
Main_Load ==
    /\ pc = "start"
    /\ printed' = <<Line("info", "main", <<"Fetching terraform state...">>),
                   Line("info", "main", <<"Got terraform state">>)>>
    /\ IF state.shape = "partitioned"
       THEN /\ module' = 1
            /\ pc' = "for_module"
            /\ UNCHANGED raised
       ELSE /\ Raise("KeyError", "main")
            /\ UNCHANGED module
    /\ UNCHANGED <<state, resources, foldersVars, iam_folders, dnsVars, helperVars,
                   ran, org_fetch, diff>>

BuildResourcesKept(module_resources) ==
    [t \in Types |-> resources[t] \cup {r \in module_resources : r.type = t}]

\* lines 31-33: a fresh defaultdict, filled from the module's resources
BuildResources(module_resources) ==
    [t \in Types |-> {r \in module_resources : r.type = t}]

\* line 30: the for loop takes the next module
ForModule ==
    /\ pc = "for_module"
    /\ \E module_resources \in MoreModules(state.body) :
       /\ state' = [state EXCEPT !.body = Append(@, module_resources)]
       /\ resources' = BuildResources(module_resources)
    /\ pc' = "check_org_iam"
    /\ UNCHANGED <<module, raised, printed, foldersVars, iam_folders, dnsVars,
                   helperVars, ran, org_fetch, diff>>

\* line 30: no module is left; main returns
Main_Return ==
    /\ pc = "for_module"
    /\ MayEnd(state.body)
    /\ pc' = "exit"
    /\ UNCHANGED <<state, module, resources, raised, printed, foldersVars, iam_folders,
                   dnsVars, helperVars, ran, org_fetch, diff>>

\* if missing: print(header); for key in missing: print(line)
Report(check, headerText, missing, lineText) ==
    IF missing = {}
    THEN << >>
    ELSE LET order == SetOrder(missing)
         IN  <<Line("header", check, headerText)>>
               \o [i \in 1..Len(order) |-> Line("line", check, lineText[order[i]])]

\* print(f'\t{member}: {role}')
IamLine(missing) == [key \in missing |-> key]

\* a check is entered: nothing of it is printed or computed yet
EnterCheck(check) ==
    /\ ran' = Append(ran, <<module, check>>)
    /\ printed' = << >>
    /\ diff' = NoDiff

(* --------------------------- check_org_iam ----------------------------- *)

CheckOrgIamSkipsWithoutOrg ==
    /\ pc = "check_org_iam"
    /\ resources["google_organization"] = {}
    /\ EnterCheck("org_iam")
    /\ pc' = "check_folders"
    /\ UNCHANGED <<state, module, resources, raised, foldersVars, iam_folders,
                   dnsVars, helperVars, org_fetch>>

\* lines 118-151
CheckOrgIam ==
    /\ pc = "check_org_iam"
    /\ ran' = Append(ran, <<module, "org_iam">>)
    /\ UNCHANGED <<state, module, resources, foldersVars, iam_folders, dnsVars, helperVars>>
    /\ IF resources["google_organization"] = {}
       THEN \* next(iter([])) raises StopIteration
            /\ Raise("StopIteration", "check_org_iam")
            /\ printed' = << >>
            /\ diff' = NoDiff
            /\ UNCHANGED org_fetch
       ELSE \E org_state \in resources["google_organization"] :
            IF ~Found(org_state, "name")
            THEN /\ Raise("JsonPointerException", "check_org_iam")
                 /\ printed' = << >>
                 /\ diff' = NoDiff
                 /\ UNCHANGED org_fetch
            ELSE
            /\ org_fetch' = org_fetch \cup {module}
            /\ \E ok \in BOOLEAN : \E bindings \in Policies :
               IF ~ok
               THEN /\ bindings = << >>
                    /\ Raise("HttpError", "check_org_iam")
                    /\ printed' = << >>
                    /\ diff' = NoDiff
               ELSE
               LET gcp_iam_ids == Flatten(bindings)
                   declared == resources["google_organization_iam_member"]
                   state_iam_ids == MemberKeys(declared)
                   missing_iam_ids == gcp_iam_ids \ state_iam_ids
                   d == [check |-> "org_iam", module |-> module,
                         scope |-> org_state.attributes["name"], bindings |-> bindings,
                         live |-> gcp_iam_ids, missing |-> missing_iam_ids, printed |-> << >>]
               IN
               IF ~AllFound(declared, {"member", "role"})
               THEN /\ Raise("JsonPointerException", "check_org_iam")
                    /\ printed' = << >>
                    /\ diff' = NoDiff
               ELSE IF missing_iam_ids # {} /\ ~Found(org_state, "domain")
               THEN /\ Raise("JsonPointerException", "check_org_iam")
                    /\ printed' = << >>
                    /\ diff' = d
               ELSE LET out == Report("org_iam", <<org_state.attributes["domain"]>>,
                                      missing_iam_ids, IamLine(missing_iam_ids)) IN
                    /\ printed' = out
                    /\ diff' = [d EXCEPT !.printed = out]
                    /\ pc' = "check_folders"
                    /\ UNCHANGED raised

(* --------------------------- check_folders ----------------------------- *)

\* filter(None, parent_ids): None and the empty string are dropped
Truthy(v) == v # ""

\* lines 85-97: the parents of the declared folders
CheckFolders_Start ==
    /\ pc = "check_folders"
    /\ EnterCheck("folders")
    /\ IF ~AllFound(resources["google_folder"], {"parent"})
       THEN \* resolve_pointer is called without a default
            /\ Raise("JsonPointerException", "check_folders")
            /\ UNCHANGED <<parent_ids, gcp_folders>>
       ELSE /\ parent_ids' = {v \in {folder.attributes["parent"]
                                       : folder \in resources["google_folder"]} : Truthy(v)}
            /\ gcp_folders' = EmptyDict
            /\ pc' = "folders_loop"
            /\ UNCHANGED raised
    /\ UNCHANGED <<state, module, resources, page_folders, folder_pages, iam_folders,
                   dnsVars, helperVars, org_fetch>>

\* lines 100-101 and 218: the loop takes a parent and builds the list request
CheckFolders_NextParent ==
    /\ pc = "folders_loop"
    /\ parent_ids # {}
    /\ \E parent_id \in parent_ids : parent_ids' = parent_ids \ {parent_id}
    /\ request' = 1
    /\ log' = << >>
    /\ seen' = << >>
    /\ page_folders' = EmptyDict
    /\ folder_pages' = << >>
    /\ pc' = "folders_first"
    /\ UNCHANGED <<state, module, resources, raised, printed, gcp_folders, iam_folders,
                   dnsVars, ran, org_fetch, diff>>

\* one executed page request: its page and how it ended
Entry(page, outcome) ==
    [page |-> page,
     result |-> IF ~outcome.ok THEN "error" ELSE IF outcome.next THEN "token" ELSE "last"]

\* response.get('folders', [])
FoldersOf(response) == IF response.haskey THEN response.items ELSE << >>

\* lines 219-227: the first page, then list_next
GetFolders_First ==
    /\ pc = "folders_first"
    /\ \E outcome \in PageOutcomes(LiveFolders, request, seen, TRUE) :
       /\ log' = Append(log, Entry(request, outcome))
       /\ IF ~outcome.ok
          THEN /\ Raise("HttpError", "check_folders")
               /\ UNCHANGED <<page_folders, request, seen, folder_pages>>
          ELSE /\ page_folders' = ToDict(FoldersOf(outcome))
               /\ seen' = seen \o outcome.items
               /\ folder_pages' = Append(folder_pages, outcome.items)
               /\ request' = ListNext(request, outcome.next)
               /\ pc' = IF request' # 0 THEN "folders_next" ELSE "folders_return"
               /\ UNCHANGED raised
    /\ UNCHANGED <<state, module, resources, printed, parent_ids, gcp_folders, iam_folders,
                   dnsVars, ran, org_fetch, diff>>

\* lines 228-233 and 227: a further page, then list_next
GetFolders_Next ==
    /\ pc = "folders_next"
    /\ \E outcome \in PageOutcomes(LiveFolders, request, seen, TRUE) :
       /\ log' = Append(log, Entry(request, outcome))
       /\ IF ~outcome.ok
          THEN /\ Raise("HttpError", "check_folders")
               /\ UNCHANGED <<page_folders, request, seen, folder_pages>>
          ELSE /\ page_folders' = Update(page_folders, ToDict(FoldersOf(outcome)))
               /\ seen' = seen \o outcome.items
               /\ folder_pages' = Append(folder_pages, outcome.items)
               /\ request' = ListNext(request, outcome.next)
               /\ pc' = IF request' # 0 THEN "folders_next" ELSE "folders_return"
               /\ UNCHANGED raised
    /\ UNCHANGED <<state, module, resources, printed, parent_ids, gcp_folders, iam_folders,
                   dnsVars, ran, org_fetch, diff>>

\* lines 235 and 101: return gcp_folders; gcp_folders.update(...)
GetFolders_Return ==
    /\ pc = "folders_return"
    /\ gcp_folders' = Update(gcp_folders, page_folders)
    /\ page_folders' = EmptyDict
    /\ log' = << >>
    /\ seen' = << >>
    /\ folder_pages' = << >>
    /\ pc' = "folders_loop"
    /\ UNCHANGED <<state, module, resources, raised, printed, parent_ids, iam_folders,
                   dnsVars, request, ran, org_fetch, diff>>

\* print(f'\t{folder_data["displayName"]} ({folder_data["name"]})')
FolderLine(live) == [id \in DOMAIN live |-> <<live[id].displayName, live[id].name>>]

\* lines 103-115: the difference and the report
CheckFolders_Finish ==
    /\ pc = "folders_loop"
    /\ parent_ids = {}
    /\ LET folder_states == resources["google_folder"]
           state_folders == {folder.attributes["name"] : folder \in folder_states}
           gcp_folder_ids == DOMAIN gcp_folders
           missing_folder_ids == gcp_folder_ids \ state_folders
           d == [check |-> "folders", module |-> module, scope |-> "",
                 bindings |-> << >>, live |-> gcp_folder_ids,
                 missing |-> missing_folder_ids, printed |-> << >>]
       IN  IF ~AllFound(folder_states, {"name"})
           THEN /\ Raise("JsonPointerException", "check_folders")
                /\ UNCHANGED <<printed, diff>>
           ELSE LET out == Report("folders", << >>, missing_folder_ids, FolderLine(gcp_folders)) IN
                /\ printed' = printed \o out
                /\ diff' = [d EXCEPT !.printed = out]
                /\ pc' = "check_folder_iam"
                /\ UNCHANGED raised
    /\ gcp_folders' = EmptyDict
    /\ UNCHANGED <<state, module, resources, parent_ids, page_folders, folder_pages,
                   iam_folders, dnsVars, helperVars, ran, org_fetch>>

(* ------------------------- check_folder_iam ---------------------------- *)

\* lines 154-168: folder_states and iam_states_by_folder_name
CheckFolderIam_Start ==
    /\ pc = "check_folder_iam"
    /\ EnterCheck("folder_iam")
    /\ IF ~AllFound(resources["google_folder"], {"id"})
          \/ ~AllFound(resources["google_folder_iam_member"], {"folder"})
       THEN /\ Raise("JsonPointerException", "check_folder_iam")
            /\ UNCHANGED iam_folders
       ELSE /\ iam_folders' = {member_resource.attributes["folder"]
                                 : member_resource \in resources["google_folder_iam_member"]}
            /\ pc' = "folder_iam_loop"
            /\ UNCHANGED raised
    /\ UNCHANGED <<state, module, resources, foldersVars, dnsVars, helperVars,
                   org_fetch>>

\* lines 170-198: one turn of the loop over iam_states_by_folder_name
CheckFolderIam_Folder ==
    /\ pc = "folder_iam_loop"
    /\ iam_folders # {}
    /\ UNCHANGED <<state, module, resources, foldersVars, dnsVars, helperVars, ran, org_fetch>>
    /\ \E folder_name \in iam_folders : \E ok \in BOOLEAN : \E bindings \in Policies :
       /\ iam_folders' = iam_folders \ {folder_name}
       /\ IF ~ok
          THEN /\ bindings = << >>
               /\ Raise("HttpError", "check_folder_iam")
               /\ UNCHANGED <<printed, diff>>
          ELSE
          LET folder_resources == {r \in resources["google_folder_iam_member"]
                                     : r.attributes["folder"] = folder_name}
              folder_states == {f \in resources["google_folder"]
                                  : f.attributes["id"] = folder_name}
              gcp_iam_ids == Flatten(bindings)
              state_iam_ids == MemberKeys(folder_resources)
              missing_iam_ids == gcp_iam_ids \ state_iam_ids
              d == [check |-> "folder_iam", module |-> module, scope |-> folder_name,
                    bindings |-> bindings, live |-> gcp_iam_ids,
                    missing |-> missing_iam_ids, printed |-> << >>]
          IN
          IF ~AllFound(folder_resources, {"member", "role"})
          THEN /\ Raise("JsonPointerException", "check_folder_iam")
               /\ UNCHANGED <<printed, diff>>
          ELSE IF missing_iam_ids = {}
          THEN /\ diff' = d
               /\ pc' = "folder_iam_loop"
               /\ UNCHANGED <<raised, printed>>
          ELSE IF folder_states = {}
          THEN \* folder_states[folder_name]: the folder is no declared google_folder
               /\ Raise("KeyError", "check_folder_iam")
               /\ diff' = d
               /\ UNCHANGED printed
          ELSE \E folder \in folder_states :
               IF ~Found(folder, "display_name")
               THEN /\ Raise("JsonPointerException", "check_folder_iam")
                    /\ diff' = d
                    /\ UNCHANGED printed
               ELSE LET out == Report("folder_iam",
                                      <<folder.attributes["display_name"], folder_name>>,
                                      missing_iam_ids, IamLine(missing_iam_ids)) IN
                    /\ printed' = printed \o out
                    /\ diff' = [d EXCEPT !.printed = out]
                    /\ pc' = "folder_iam_loop"
                    /\ UNCHANGED raised

\* line 170: the loop is over
CheckFolderIam_Finish ==
    /\ pc = "folder_iam_loop"
    /\ iam_folders = {}
    /\ pc' = "check_dns"
    /\ UNCHANGED <<state, module, resources, raised, printed, foldersVars, iam_folders,
                   dnsVars, helperVars, ran, org_fetch, diff>>

(* ----------------------------- check_dns ------------------------------- *)

\* lines 41-50
CheckDns_Start ==
    /\ pc = "check_dns"
    /\ EnterCheck("dns")
    /\ projects' = resources["google_project"]
    /\ gcp_recordsets' = {}
    /\ pc' = "dns_projects"
    /\ UNCHANGED <<state, module, resources, raised, foldersVars, iam_folders,
                   project_id, zone_request, zone_token, zones, zone_name, recordsets,
                   zone_log, zone_seen, zone_visited, helperVars, org_fetch>>

\* lines 51-54: the loop takes a project and builds the managedZones request
CheckDns_NextProject ==
    /\ pc = "dns_projects"
    /\ projects # {}
    /\ \E project \in projects :
       /\ projects' = projects \ {project}
       /\ project_id' = project.id
    /\ zone_request' = 1
    /\ zone_log' = << >>
    /\ zone_seen' = << >>
    /\ zone_visited' = << >>
    /\ pc' = "zones_execute"
    /\ UNCHANGED <<state, module, resources, raised, printed, foldersVars, iam_folders,
                   zone_token, zones, zone_name, gcp_recordsets, recordsets, helperVars,
                   ran, org_fetch, diff>>

\* lines 55-58: one page of managed zones
Zones_Execute ==
    /\ pc = "zones_execute"
    /\ \E outcome \in PageOutcomes(LiveZones, zone_request, zone_seen, FALSE) :
       /\ zone_log' = Append(zone_log, Entry(zone_request, outcome))
       /\ IF ~outcome.ok
          THEN /\ Raise("HttpError", "check_dns")
               /\ UNCHANGED <<zones, zone_token, zone_seen>>
          ELSE /\ zones' = outcome.items
               /\ zone_token' = outcome.next
               /\ zone_seen' = zone_seen \o outcome.items
               /\ pc' = "zones_iterate"
               /\ UNCHANGED raised
    /\ UNCHANGED <<state, module, resources, printed, foldersVars, iam_folders, projects,
                   project_id, zone_request, zone_name, gcp_recordsets, recordsets,
                   zone_visited, helperVars, ran, org_fetch, diff>>

\* lines 58-60 and 202-204: the next zone of the page, and its rrsets request
Zones_NextZone ==
    /\ pc = "zones_iterate"
    /\ zones # << >>
    /\ zone_name' = Head(zones)
    /\ zones' = Tail(zones)
    /\ zone_visited' = Append(zone_visited, Head(zones))
    /\ recordsets' = << >>
    /\ request' = 1
    /\ log' = << >>
    /\ seen' = << >>
    /\ pc' = "rrsets_execute"
    /\ UNCHANGED <<state, module, resources, raised, printed, foldersVars, iam_folders,
                   projects, project_id, zone_request, zone_token, gcp_recordsets,
                   zone_log, zone_seen, ran, org_fetch, diff>>

\* line 63: the page is done; list_next
Zones_ListNext ==
    /\ pc = "zones_iterate"
    /\ zones = << >>
    /\ zone_request' = ListNext(zone_request, zone_token)
    /\ pc' = IF zone_request' # 0 THEN "zones_execute" ELSE "dns_projects"
    /\ UNCHANGED <<state, module, resources, raised, printed, foldersVars, iam_folders,
                   projects, project_id, zone_token, zones, zone_name, gcp_recordsets,
                   recordsets, zone_log, zone_seen, zone_visited, helperVars, ran,
                   org_fetch, diff>>

\* lines 205-212: one page of record sets, then list_next
Rrsets_Execute ==
    /\ pc = "rrsets_execute"
    /\ \E outcome \in PageOutcomes(LiveRecords, request, seen, FALSE) :
       /\ log' = Append(log, Entry(request, outcome))
       /\ IF ~outcome.ok
          THEN /\ Raise("HttpError", "check_dns")
               /\ UNCHANGED <<recordsets, request, seen>>
          ELSE /\ recordsets' = recordsets \o RecordPairs(outcome.items)
               /\ seen' = seen \o outcome.items
               /\ request' = ListNext(request, outcome.next)
               /\ pc' = IF request' # 0 THEN "rrsets_execute" ELSE "rrsets_return"
               /\ UNCHANGED raised
    /\ UNCHANGED <<state, module, resources, printed, foldersVars, iam_folders, projects,
                   project_id, zone_request, zone_token, zones, zone_name, gcp_recordsets,
                   zone_log, zone_seen, zone_visited, ran, org_fetch, diff>>

\* lines 214 and 60-61: return recordsets; gcp_recordsets.add(...) for each
Rrsets_Return ==
    /\ pc = "rrsets_return"
    /\ gcp_recordsets' = gcp_recordsets
           \cup {<<project_id, zone_name, rs[1], rs[2]>> : rs \in Range(recordsets)}
    /\ recordsets' = << >>
    /\ log' = << >>
    /\ seen' = << >>
    /\ pc' = "zones_iterate"
    /\ UNCHANGED <<state, module, resources, raised, printed, foldersVars, iam_folders,
                   projects, project_id, zone_request, zone_token, zones, zone_name,
                   zone_log, zone_seen, zone_visited, request, ran, org_fetch, diff>>

\* set((resolve(project), resolve(managed_zone), resolve(name), resolve(type)) for ...)
RecordKeys(rs) ==
    {<<r.attributes["project"], r.attributes["managed_zone"], r.attributes["name"],
       r.attributes["type"]>> : r \in rs}

\* print(f'\t{name} ({rs_type} record)\n\t\tin managed zone {zone} of project {project_id}')
DnsLine(missing) == [key \in missing |-> <<key[3], key[4], key[2], key[1]>>]

\* lines 65-82: the difference and the report; main's loop goes on
CheckDns_Finish ==
    /\ pc = "dns_projects"
    /\ projects = {}
    /\ LET declared == resources["google_dns_record_set"]
           dns_rs_states == RecordKeys(declared)
           missing_dns == gcp_recordsets \ dns_rs_states
           d == [check |-> "dns", module |-> module, scope |-> "", bindings |-> << >>,
                 live |-> gcp_recordsets, missing |-> missing_dns,
                 printed |-> << >>]
       IN  IF ~AllFound(declared, {"project", "managed_zone", "name", "type"})
           THEN /\ Raise("JsonPointerException", "check_dns")
                /\ UNCHANGED <<printed, diff, module>>
           ELSE LET out == Report("dns", << >>, missing_dns, DnsLine(missing_dns)) IN
                /\ printed' = printed \o out
                /\ diff' = [d EXCEPT !.printed = out]
                /\ module' = module + 1
                /\ pc' = "for_module"
                /\ UNCHANGED raised
    /\ gcp_recordsets' = {}
    /\ zone_log' = << >>
    /\ zone_seen' = << >>
    /\ zone_visited' = << >>
    /\ UNCHANGED <<state, resources, foldersVars, iam_folders, projects, project_id,
                   zone_request, zone_token, zones, zone_name, recordsets, helperVars,
                   ran, org_fetch>>

(* ------------------------------ the run -------------------------------- *)

Next ==
    \/ Main_Load
    \/ ForModule
    \/ Main_Return
    \/ CheckOrgIam
    \/ CheckFolders_Start
    \/ CheckFolders_NextParent
    \/ GetFolders_First
    \/ GetFolders_Next
    \/ GetFolders_Return
    \/ CheckFolders_Finish
    \/ CheckFolderIam_Start
    \/ CheckFolderIam_Folder
    \/ CheckFolderIam_Finish
    \/ CheckDns_Start
    \/ CheckDns_NextProject
    \/ Zones_Execute
    \/ Zones_NextZone
    \/ Zones_ListNext
    \/ Rrsets_Execute
    \/ Rrsets_Return
    \/ CheckDns_Finish

Spec == Init /\ [][Next]_vars

(* ------------------------- reading the history ------------------------- *)

CheckOrder == <<"org_iam", "folders", "folder_iam", "dns">>

OfType(rs, type) == {r \in rs : r.type = type}

\* the (member, role) pairs a policy grants, one per member of each binding
LiveIam(bindings) ==
    UNION {{<<b.members[i], b.role>> : i \in 1..Len(b.members)} : b \in Range(bindings)}

\* the key a printed line names
LineKey(l) ==
    CASE l.check = "folders" -> l.text[2]
      [] l.check = "dns" -> <<l.text[4], l.text[3], l.text[1], l.text[2]>>
      [] OTHER -> l.text

PrintedKeys(lines) == {LineKey(l) : l \in {x \in Range(lines) : x.kind = "line"}}

\* the live key-set of the difference d, from what the APIs answered
LiveKeys(d) ==
    IF d.check \in {"org_iam", "folder_iam"} THEN LiveIam(d.bindings) ELSE d.live

\* the declared key-set of the difference d, from the resources rs
DeclaredKeys(d, rs) ==
    CASE d.check = "org_iam" ->
           MemberKeys(OfType(rs, "google_organization_iam_member"))
      [] d.check = "folder_iam" ->
           MemberKeys({r \in OfType(rs, "google_folder_iam_member")
                         : r.attributes["folder"] = d.scope})
      [] d.check = "folders" -> {r.attributes["name"] : r \in OfType(rs, "google_folder")}
      [] d.check = "dns" -> RecordKeys(OfType(rs, "google_dns_record_set"))
      [] OTHER -> {}

\* no module read so far declares an organisation
NoOrganization ==
    \A m \in 1..Len(state.body) : OfType(state.body[m], "google_organization") = {}

\* the page requests l of one listing: each page once and in turn, a further page
\* only after an answer with a token, nothing after an answer without or an error
LogOk(l) ==
    /\ Len(l) <= MaxPages
    /\ \A i \in 1..Len(l) : l[i].page = i
    /\ \A i \in 1..(Len(l) - 1) : l[i].result = "token"

Last(l) == l[Len(l)]

\* the items of the pages ps, in order
RECURSIVE Concat(_)
Concat(ps) == IF ps = << >> THEN << >> ELSE Head(ps) \o Concat(Tail(ps))

(* ------------------------------- claims -------------------------------- *)

\* C1: per-check isolation: when a live request of one check fails, the checks after
\* it still run, so that at the end of the run every check of every module read has
\* been entered.
C1_ChecksIsolated ==
    (pc = "exit" /\ raised.exc = "HttpError") =>
        \A m \in 1..Len(state.body) : \A i \in 1..4 :
            \E j \in 1..Len(ran) : ran[j] = <<m, CheckOrder[i]>>

\* C2: a flat document {resources: ...} is accepted like a one-module document: main
\* raises nothing on it and runs the four checks on its resources.
C2_FlatAccepted ==
    (state.shape = "flat" /\ pc = "exit") =>
        /\ raised = NoException
        /\ \A i \in 1..4 : \E j \in 1..Len(ran) : ran[j] = <<1, CheckOrder[i]>>

\* C3: pagination completeness: when an enumerator returns, its last page carried no
\* token and its result is that of one unpaged listing of all the items of its pages:
\* the folders by name with the later record winning, the record sets in order, the
\* managed zones each visited in order.
C3_PaginationComplete ==
    /\ pc = "folders_return" =>
          /\ Last(log).result = "last"
          /\ Len(folder_pages) = Len(log)
          /\ seen = Concat(folder_pages)
          /\ page_folders = ToDict(seen)
          /\ DOMAIN page_folders = {seen[i].name : i \in 1..Len(seen)}
          /\ \A i \in 1..Len(seen) :
                (\A j \in (i + 1)..Len(seen) : seen[j].name # seen[i].name)
                   => page_folders[seen[i].name] = seen[i]
    /\ pc = "rrsets_return" =>
          /\ Last(log).result = "last"
          /\ recordsets = RecordPairs(seen)
    /\ (pc = "dns_projects" /\ zone_log # << >>) =>
          /\ Last(zone_log).result = "last"
          /\ zone_visited = zone_seen

\* a folder listing of two pages that name the same folder differently has returned
C3_Witness ==
    /\ pc = "folders_return"
    /\ Len(folder_pages) = 2
    /\ Len(folder_pages[1]) = 1
    /\ Len(folder_pages[2]) = 1
    /\ folder_pages[1][1].name = folder_pages[2][1].name
    /\ folder_pages[1][1] # folder_pages[2][1]

\* C4: in each of the four checks the keys reported as missing are exactly the live
\* keys that are not declared keys of the module (one (member, role) key per member
\* of a binding).
C4_ReportedIsLiveMinusDeclared ==
    diff.check # "none" =>
        PrintedKeys(diff.printed) = LiveKeys(diff) \ DeclaredKeys(diff, state.body[diff.module])

\* C5: a declared folder without a parent attribute resolves to no value: check_folders
\* does not raise on it.
C5_AbsentParentTolerated ==
    (/\ Len(ran) > 0
     /\ Last(ran) = <<module, "folders">>
     /\ \E folder \in resources["google_folder"] : ~Found(folder, "parent"))
    => raised = NoException

\* C6: the folder IAM check covers a folder that only a google_folder_iam_member names:
\* after its policy is fetched the turn completes and its missing keys are printed.
C6_UndeclaredFolderCovered ==
    (/\ diff.check = "folder_iam"
     /\ \A f \in resources["google_folder"] : f.attributes["id"] # diff.scope)
    => /\ raised = NoException
       /\ PrintedKeys(diff.printed) = diff.missing

C8_ReporterSilence ==
    diff.check # "none" =>
        /\ (diff.printed = << >>) <=> (diff.missing = {})
        /\ diff.missing # {} =>
              /\ Len(diff.printed) = 1 + Cardinality(diff.missing)
              /\ diff.printed[1].kind = "header"
              /\ \A i \in 2..Len(diff.printed) : diff.printed[i].kind = "line"
              /\ PrintedKeys(diff.printed) = diff.missing

\* C9: no retry, and paging ends: a listing's page requests are executed once each and
\* in turn, a further page is requested only after an answer with a token, the loop
\* ends at the first answer without one, and a failed request ends the run with its
\* error.
C9_NoRetry ==
    /\ LogOk(log)
    /\ LogOk(zone_log)
    /\ \A l \in {log, zone_log} :
          (l # << >> /\ Last(l).result = "error") =>
             (pc = "exit" /\ raised.exc = "HttpError")
    /\ pc \in {"folders_first", "folders_next", "rrsets_execute"} =>
          (request = Len(log) + 1 /\ (log # << >> => Last(log).result = "token"))
    /\ pc \in {"folders_return", "rrsets_return"} =>
          (request = 0 /\ Last(log).result = "last")
    /\ pc = "zones_execute" =>
          (zone_request = Len(zone_log) + 1
             /\ (zone_log # << >> => Last(zone_log).result = "token"))

\* the second page of a listing failed: the run is over
C9_Witness ==
    /\ Len(log) = 2
    /\ log[1].result = "token"
    /\ log[2].result = "error"
    /\ pc = "exit"

\* C10: the resource groups are those of the module being processed alone, the checks
\* run once per module in the order org IAM, folders, folder IAM, DNS, and what the org
\* IAM, folders and DNS checks report is the live keys minus the keys declared in that
\* module, whatever other modules declare.
C10_ModuleLocal ==
    /\ pc \notin {"start", "for_module", "exit"} =>
          \A t \in Types : resources[t] = OfType(state.body[module], t)
    /\ \A j \in 1..Len(ran) :
          ran[j] = <<((j - 1) \div 4) + 1, CheckOrder[((j - 1) % 4) + 1]>>
    /\ diff.check \in {"org_iam", "folders", "dns"} =>
          PrintedKeys(diff.printed)
             = LiveKeys(diff) \ DeclaredKeys(diff, state.body[diff.module])

\* the org IAM check of the second module reports a binding that the first module
\* declares
C10_Witness ==
    /\ diff.check = "org_iam"
    /\ diff.module = 2
    /\ \E key \in PrintedKeys(diff.printed) :
          key \in MemberKeys(OfType(state.body[1], "google_organization_iam_member"))

====
